---- MODULE Spec2Model ----
(***************************************************************************)
(* Model of app.py, the Streamlit "AI VC Startup Screener".                *)
(*                                                                         *)
(* Two specifications share the module:                                    *)
(*   Spec      one execution of the script after another: sidebar,         *)
(*             credential resolution, input widgets, deck extraction, the  *)
(*             Analyze button, validation, prompt, the completion request, *)
(*             cleaning and the two downloads;                             *)
(*   TextSpec  the pure text functions clean_memo_text and                 *)
(*             normalize_for_pdf applied to every text of bounded length.  *)
(*                                                                         *)
(* A text is a sequence of characters; a character is a one-token string.  *)
(* Characters outside ASCII carry their names ("emdash", "le", ...).       *)
(***************************************************************************)
EXTENDS Integers, Sequences, FiniteSets

VARIABLES
    \* ---- Spec: the script run ----
    DEFAULT_OPENROUTER_KEY, \* os.getenv("OPENROUTER_API_KEY"): "None" when unset
    pc,                     \* position of the script run
    memo_mode,              \* sidebar radio
    user_api_key,           \* sidebar password input
    OPENROUTER_KEY,         \* the resolved credential
    startup_name, startup_description, founder_background,
    details,                \* the optional form fields
    clicked,                \* st.button's return value
    pitch_deck,             \* the uploaded file, or NoFile
    deck_text,              \* read_pdf's result
    PROMPT,                 \* the built prompt, a sequence of lines
    requests,               \* the requests.post calls made in this run
    failure,                \* the exception the run raised, or "none"
    response,               \* how call_nex_agi ended: "pending", "raised", "text", "null"
    raw_output,             \* call_nex_agi's return value
    output,                 \* clean_memo_text(raw_output)
    pdf_safe,               \* normalize_for_pdf(output)
    ui,                     \* what the run has put on the page, in order
    \* ---- TextSpec: the pure functions ----
    applied,                \* names of the functions applied so far
    hist                    \* hist[1] is the input, hist[k+1] the k-th result

runVars == <<DEFAULT_OPENROUTER_KEY, pc, memo_mode, user_api_key, OPENROUTER_KEY,
             startup_name, startup_description, founder_background, details, clicked,
             pitch_deck, deck_text, PROMPT, requests, failure, response, raw_output,
             output, pdf_safe, ui>>
textVars == <<applied, hist>>
vars == <<runVars, textVars>>

----------------------------------------------------------------------------
(* Bounds of the model *)

MaxLen == 5         \* longest text given to clean_memo_text in TextSpec
MaxPdfLen == 3      \* longest text given to normalize_for_pdf in TextSpec
MaxReplyLen == 2    \* longest provider reply in Spec

----------------------------------------------------------------------------
(* Characters *)

AsciiLetters == {"a"}                       \* [a-zA-Z]
Digits == {"5"}                             \* \d
WordChars == AsciiLetters \cup Digits \cup {"_"}   \* \w
Whitespace == {" ", "\n", "\t", "\r"}       \* \s, and what str.strip() removes
Newline == "\n"

\* The keys of normalize_for_pdf's table, and the two signs it does not hold.
MappedChars == {"emdash", "endash", "ldquo", "rdquo", "lsquo", "rsquo", "bullet", "rarrow"}
UnmappedSigns == {"le", "ge"}
\* Characters the "latin-1" codec cannot encode.
NonLatin1 == MappedChars \cup UnmappedSigns

CleanerAlphabet == {"a", "5", "_", " ", "\n", "."}
PdfAlphabet == MappedChars \cup UnmappedSigns \cup {"a", "\n"}
ReplyAlphabet == {"a", " ", "\n", "rarrow", "le"}

TextsOver(A, n) == UNION {[1..k -> A] : k \in 0..n}

----------------------------------------------------------------------------
(* clean_memo_text *)

\* Last index of the maximal run of characters of S that starts at i (i-1: none).
RECURSIVE RunEnd(_, _, _)
RunEnd(s, i, S) ==
    IF i <= Len(s) /\ s[i] \in S THEN RunEnd(s, i + 1, S) ELSE i - 1

\* re.sub(r'(?<=\w)\s+(?=\w)', ' ', text), scanning from i
RECURSIVE SubCollapse(_, _)
SubCollapse(s, i) ==
    IF i > Len(s) THEN <<>>
    ELSE LET j == RunEnd(s, i, Whitespace) IN
         IF /\ i > 1
            /\ s[i - 1] \in WordChars
            /\ j >= i
            /\ j < Len(s)
            /\ s[j + 1] \in WordChars
         THEN <<" ">> \o SubCollapse(s, j + 1)
         ELSE <<s[i]>> \o SubCollapse(s, i + 1)

\* The second group of r'(\d)\s+([a-zA-Z])'
JoinLetterW == WordChars
JoinLetter == AsciiLetters

\* re.sub(r'(\d)\s+([a-zA-Z])', r'\1\2', text), scanning from i
RECURSIVE SubJoin(_, _)
SubJoin(s, i) ==
    IF i > Len(s) THEN <<>>
    ELSE LET j == RunEnd(s, i + 1, Whitespace) IN
         IF /\ s[i] \in Digits
            /\ j >= i + 1
            /\ j < Len(s)
            /\ s[j + 1] \in JoinLetter
         THEN <<s[i], s[j + 1]>> \o SubJoin(s, j + 2)
         ELSE <<s[i]>> \o SubJoin(s, i + 1)

\* re.sub(r'\n{3,}', '\n\n', text), scanning from i
RECURSIVE SubNewlines(_, _)
SubNewlines(s, i) ==
    IF i > Len(s) THEN <<>>
    ELSE LET j == RunEnd(s, i, {Newline}) IN
         IF j - i + 1 >= 3
         THEN <<Newline, Newline>> \o SubNewlines(s, j + 1)
         ELSE <<s[i]>> \o SubNewlines(s, i + 1)

\* str.strip()
Strip(s) ==
    LET keep == {i \in 1..Len(s) : s[i] \notin Whitespace} IN
    IF keep = {} THEN <<>>
    ELSE LET lo == CHOOSE i \in keep : \A k \in keep : i <= k
             hi == CHOOSE i \in keep : \A k \in keep : i >= k
         IN SubSeq(s, lo, hi)

clean_memo_text_nocollapse(text) ==
    Strip(SubJoin(SubCollapse(text, 1), 1))

clean_memo_text(text) ==
    Strip(SubNewlines(SubJoin(SubCollapse(text, 1), 1), 1))

----------------------------------------------------------------------------
(* normalize_for_pdf *)

\* The dict of normalize_for_pdf, in insertion order, without its bullet entry.
replacements_nobullet ==
    << <<"emdash", <<"-">>>>, <<"endash", <<"-">>>>,
       <<"ldquo", <<"\"">>>>, <<"rdquo", <<"\"">>>>,
       <<"lsquo", <<"'">>>>, <<"rsquo", <<"'">>>>,
       <<"rarrow", <<"-", ">">>>> >>

\* The dict of normalize_for_pdf, in insertion order.
replacements ==
    << <<"emdash", <<"-">>>>, <<"endash", <<"-">>>>,
       <<"ldquo", <<"\"">>>>, <<"rdquo", <<"\"">>>>,
       <<"lsquo", <<"'">>>>, <<"rsquo", <<"'">>>>,
       <<"bullet", <<"-">>>>, <<"rarrow", <<"-", ">">>>> >>

\* text.replace(k, v) for a one-character k
RECURSIVE Replace(_, _, _)
Replace(s, k, v) ==
    IF s = <<>> THEN <<>>
    ELSE (IF Head(s) = k THEN v ELSE <<Head(s)>>) \o Replace(Tail(s), k, v)

\* for k, v in replacements.items(): text = text.replace(k, v), from entry n on
RECURSIVE ReplaceAll(_, _)
ReplaceAll(s, n) ==
    IF n > Len(replacements) THEN s
    ELSE ReplaceAll(Replace(s, replacements[n][1], replacements[n][2]), n + 1)

normalize_for_pdf(text) == ReplaceAll(text, 1)

----------------------------------------------------------------------------
(* The script run: values *)

None == "None"                       \* Python's None, where a str is expected
Truthy(v) == v \notin {None, ""}     \* bool(v) for a str or None

EnvKeys == {None, "", "sk-env"}      \* what os.getenv may return
UserKeys == {"", "sk-user"}          \* what the sidebar text_input may hold
Modes == {"Quick IC Memo", "Full IC Memo"}

\* The optional form fields, drawn together.
BlankDetails ==
    [sector |-> "", stage |-> "Pre-Seed", geography |-> "",
     founder_linkedin |-> "", traction |-> ""]
Details ==
    { BlankDetails,
      [sector |-> "Tools", stage |-> "Seed", geography |-> "EU",
       founder_linkedin |-> "https://linkedin.com/in/x", traction |-> "3 pilots"] }

\* st.file_uploader: nothing, or a file with its size, whether PdfReader can
\* parse it, and what extract_text() gives for each page.
NoFile == [present |-> FALSE, size_mb |-> 0, parseable |-> FALSE, pages |-> <<>>]
Decks ==
    { [present |-> TRUE, size_mb |-> 1,  parseable |-> TRUE,  pages |-> <<"Deck p1", "", "Deck p3">>],
      [present |-> TRUE, size_mb |-> 1,  parseable |-> TRUE,  pages |-> <<"">>],
      [present |-> TRUE, size_mb |-> 1,  parseable |-> FALSE, pages |-> <<>>],
      [present |-> TRUE, size_mb |-> 11, parseable |-> TRUE,  pages |-> <<"Big deck">>],
      [present |-> TRUE, size_mb |-> 11, parseable |-> FALSE, pages |-> <<>>] }

Replies == TextsOver(ReplyAlphabet, MaxReplyLen)

\* What requests.post, raise_for_status and the body parsing may raise.
RequestFailures ==
    {"ConnectionError", "Timeout", "HTTPError 429", "HTTPError 500",
     "JSONDecodeError", "KeyError"}

\* One thing put on the page.
Elem(kind, label, file, data, doc) ==
    [kind |-> kind, label |-> label, file |-> file, data |-> data, doc |-> doc]
Msg(kind, label) == Elem(kind, label, "", <<>>, <<>>)

----------------------------------------------------------------------------
(* Helpers of the script *)

DeckCap == 3000

\* the loop of read_pdf over reader.pages, from page n on
RECURSIVE PagesText(_, _)
PagesText(pages, n) ==
    IF n > Len(pages) THEN ""
    ELSE (IF pages[n] # "" THEN pages[n] \o "\n" ELSE "") \o PagesText(pages, n + 1)

\* read_pdf, for a file PdfReader can parse
read_pdf(file) ==
    LET text == PagesText(file.pages, 1) IN
    IF Len(text) > DeckCap THEN SubSeq(text, 1, DeckCap) ELSE text

\* OPENROUTER_KEY = user_api_key if user_api_key else DEFAULT_OPENROUTER_KEY
ResolveKeyDefaultFirst(user, default) == IF Truthy(default) THEN default ELSE user
ResolveKey(user, default) == IF Truthy(user) THEN user ELSE default

\* not startup_name or not startup_description or not founder_background
RequiredMissingNameOnly == ~Truthy(startup_name)
RequiredMissing ==
    \/ ~Truthy(startup_name)
    \/ ~Truthy(startup_description)
    \/ ~Truthy(founder_background)

\* text.split("\n")
RECURSIVE SplitLines(_, _)
SplitLines(s, cur) ==
    IF s = <<>> THEN <<cur>>
    ELSE IF Head(s) = Newline THEN <<cur>> \o SplitLines(Tail(s), <<>>)
    ELSE SplitLines(Tail(s), Append(cur, Head(s)))

\* memo_to_pdf: one multi_cell per line
memo_to_pdf(text) == SplitLines(text, <<>>)

\* pdf.output(dest="S").encode("latin-1") succeeds
Latin1Encodable(text) == \A i \in 1..Len(text) : text[i] \notin NonLatin1

\* str(e)
ExcStr(e) == "str(" \o e \o ")"

\* where the except branch leaves the run: st.stop()
ExceptBranchFallsThrough == "clean"
ExceptBranchNext == "stopped"

----------------------------------------------------------------------------
(* The two prompt templates, line by line (blank lines left out) *)

QuickPrompt(name, description, founder, d) ==
    << "CRITICAL CONSTRAINT:",
       "Use ONLY the information explicitly provided.",
       "Do NOT invent facts. If missing, say \"Information not provided.\"",
       "Company: " \o name,
       "Write a SHORT internal VC memo (max 500 words).",
       "Cover:",
       "1. What the company does",
       "2. Why this could matter",
       "3. Founder assessment",
       "4. Market snapshot",
       "5. Top 3 risks",
       "6. Preliminary recommendation (Proceed / Watch / Pass)",
       "Be opinionated, concise, and honest.",
       "Startup Description:", description,
       "Founder Background:", founder,
       "Traction:", d.traction >>

\* deck_section = f"\nPitch Deck Notes:\n{deck_text}" if deck_text else ""
deck_section(text) == IF text # "" THEN <<"Pitch Deck Notes:", text>> ELSE <<>>

FullPrompt(name, description, founder, d, deck) ==
    << "CRITICAL CONSTRAINT:",
       "You must ONLY use the information explicitly provided below.",
       "Do NOT invent company names, products, traction, founders, numbers, or customers.",
       "If information is missing, explicitly say \"Information not provided.\"",
       "If assumptions are made, clearly label them as assumptions.",
       "Do NOT rename or substitute the company.",
       "Company name: " \o name,
       "Write an internal VC investment committee memo.",
       "Startup details:",
       "Sector: " \o d.sector,
       "Stage: " \o d.stage,
       "Geography: " \o d.geography,
       "Founder LinkedIn:", d.founder_linkedin,
       "Founder Background:", founder,
       "Startup Description:", description,
       "Traction:", d.traction >>
    \o deck_section(deck) \o
    << "Sections:",
       "1. Investment Summary",
       "2. Company & Product",
       "3. Founder & Team",
       "4. Traction & Early Signals",
       "5. Market Opportunity",
       "6. Business Model & Monetization",
       "7. Risks & Concerns",
       "8. Why This Can Win",
       "9. Scoring (Market 35%, Founder 30%, Product 20%, Traction 10%, Risk 5%)",
       "10. Key Open Questions",
       "11. Final Recommendation (Proceed / Watch / Pass)",
       "Formatting rules:",
       "- No tables",
       "- Clean paragraphs",
       "- Normal numbers (e.g. \"$5 million\")" >>

----------------------------------------------------------------------------
(* The script run: actions *)

\* A run that has not started: every widget at its default, nothing on the page.
FreshRun ==
    /\ pc = "sidebar"
    /\ memo_mode = "Quick IC Memo"
    /\ user_api_key = ""
    /\ OPENROUTER_KEY = None
    /\ startup_name = ""
    /\ startup_description = ""
    /\ founder_background = ""
    /\ details = BlankDetails
    /\ clicked = FALSE
    /\ pitch_deck = NoFile
    /\ deck_text = ""
    /\ PROMPT = <<>>
    /\ requests = <<>>
    /\ failure = "none"
    /\ response = "pending"
    /\ raw_output = <<>>
    /\ output = <<>>
    /\ pdf_safe = <<>>
    /\ ui = <<>>

TextIdle == applied = <<>> /\ hist = <<>>

Init ==
    /\ DEFAULT_OPENROUTER_KEY \in EnvKeys
    /\ FreshRun
    /\ TextIdle

\* lines 55-73: the sidebar widgets and the credential
Sidebar ==
    /\ pc = "sidebar"
    /\ \E m \in Modes, k \in UserKeys :
          LET key == ResolveKey(k, DEFAULT_OPENROUTER_KEY)
              shown == ui \o <<Msg("sidebar", "Memo Mode"),
                               Msg("sidebar", "Use your own OpenRouter API key (optional)")>>
          IN /\ memo_mode' = m
             /\ user_api_key' = k
             /\ OPENROUTER_KEY' = key
             /\ IF ~Truthy(key)
                THEN /\ ui' = Append(shown, Msg("warning",
                              "No OpenRouter API key found. Add one in Secrets or paste your own."))
                     /\ pc' = "stopped"
                ELSE /\ ui' = shown
                     /\ pc' = "inputs"
    /\ UNCHANGED <<DEFAULT_OPENROUTER_KEY, startup_name, startup_description,
                   founder_background, details, clicked, pitch_deck, deck_text, PROMPT,
                   requests, failure, response, raw_output, output, pdf_safe, textVars>>

\* lines 144-162: the input widgets
Inputs ==
    /\ pc = "inputs"
    /\ \E n \in {"", "Acme"}, d \in {"", "Sells wrenches"}, f \in {"", "Ex-Snap engineer"},
          o \in Details, p \in Decks \cup {NoFile} :
          /\ startup_name' = n
          /\ startup_description' = d
          /\ founder_background' = f
          /\ details' = o
          /\ pitch_deck' = p
    /\ ui' = ui \o <<Msg("input", "Startup Name"), Msg("input", "Sector"),
                     Msg("input", "Stage"), Msg("input", "Geography"),
                     Msg("input", "Paste website copy / product description"),
                     Msg("input", "Founder LinkedIn Profile URL"),
                     Msg("input", "Founder Background (LinkedIn About + Experience)"),
                     Msg("input", "Users, revenue, pilots, LOIs (if any)"),
                     Msg("input", "Upload Pitch Deck (PDF)")>>
    /\ pc' = "deck"
    /\ UNCHANGED <<DEFAULT_OPENROUTER_KEY, memo_mode, user_api_key, OPENROUTER_KEY, clicked,
                   deck_text, PROMPT, requests, failure, response, raw_output, output,
                   pdf_safe, textVars>>

\* line 163: deck_text = read_pdf(pitch_deck) if pitch_deck else ""
ReadDeck ==
    /\ pc = "deck"
    /\ IF ~pitch_deck.present
       THEN deck_text' = "" /\ pc' = "button" /\ failure' = failure
       ELSE IF pitch_deck.parseable
       THEN deck_text' = read_pdf(pitch_deck) /\ pc' = "button" /\ failure' = failure
       ELSE deck_text' = deck_text /\ pc' = "crashed" /\ failure' = "PdfReadError"
    /\ UNCHANGED <<DEFAULT_OPENROUTER_KEY, memo_mode, user_api_key, OPENROUTER_KEY,
                   startup_name, startup_description, founder_background, details, clicked,
                   pitch_deck, PROMPT, requests, response, raw_output, output, pdf_safe,
                   ui, textVars>>

\* line 167: if st.button("Analyze Startup")
Button ==
    /\ pc = "button"
    /\ \E c \in BOOLEAN :
          /\ clicked' = c
          /\ pc' = IF c THEN "validate" ELSE "idle"
    /\ ui' = Append(ui, Msg("button", "Analyze Startup"))
    /\ UNCHANGED <<DEFAULT_OPENROUTER_KEY, memo_mode, user_api_key, OPENROUTER_KEY,
                   startup_name, startup_description, founder_background, details,
                   pitch_deck, deck_text, PROMPT, requests, failure, response, raw_output,
                   output, pdf_safe, textVars>>

\* lines 169-171: the required fields
Validate ==
    /\ pc = "validate"
    /\ IF RequiredMissing
       THEN /\ ui' = Append(ui, Msg("error",
                        "Startup name, description, and founder background are required."))
            /\ pc' = "stopped"
       ELSE /\ ui' = ui
            /\ pc' = "prompt"
    /\ UNCHANGED <<DEFAULT_OPENROUTER_KEY, memo_mode, user_api_key, OPENROUTER_KEY,
                   startup_name, startup_description, founder_background, details, clicked,
                   pitch_deck, deck_text, PROMPT, requests, failure, response, raw_output,
                   output, pdf_safe, textVars>>

\* lines 175-252: the prompt of the chosen mode
BuildPrompt ==
    /\ pc = "prompt"
    /\ PROMPT' = IF memo_mode = "Quick IC Memo"
                 THEN QuickPrompt(startup_name, startup_description, founder_background,
                                  details)
                 ELSE FullPrompt(startup_name, startup_description, founder_background,
                                 details, deck_text)
    /\ pc' = "call"
    /\ UNCHANGED <<DEFAULT_OPENROUTER_KEY, memo_mode, user_api_key, OPENROUTER_KEY,
                   startup_name, startup_description, founder_background, details, clicked,
                   pitch_deck, deck_text, requests, failure, response, raw_output, output,
                   pdf_safe, ui, textVars>>

\* lines 254-259 with call_nex_agi (119-141): one POST, then its reply or the
\* except branch
CallProvider ==
    /\ pc = "call"
    /\ requests' = Append(requests,
                     [url |-> "https://openrouter.ai/api/v1/chat/completions",
                      authorization |-> "Bearer " \o OPENROUTER_KEY,
                      model |-> "nex-agi/deepseek-v3.1-nex-n1:free",
                      system |-> "You are a venture capitalist writing internal IC memos.",
                      user |-> PROMPT,
                      max_tokens |-> 2000,
                      timeout |-> 60])
    /\ \/ \E e \in RequestFailures :
             /\ failure' = e
             /\ response' = "raised"
             /\ raw_output' = raw_output
             /\ ui' = ui \o <<Msg("error", "AI request failed."), Msg("error", ExcStr(e))>>
             /\ pc' = ExceptBranchNext
       \/ \E r \in Replies :
             /\ response' = "text"
             /\ raw_output' = r
             /\ pc' = "clean"
             /\ UNCHANGED <<failure, ui>>
       \/ /\ response' = "null"      \* "content": null in the body
          /\ pc' = "clean"
          /\ UNCHANGED <<failure, raw_output, ui>>
    /\ UNCHANGED <<DEFAULT_OPENROUTER_KEY, memo_mode, user_api_key, OPENROUTER_KEY,
                   startup_name, startup_description, founder_background, details, clicked,
                   pitch_deck, deck_text, PROMPT, output, pdf_safe, textVars>>

\* lines 261-267: clean the reply and show it
CleanMemo ==
    /\ pc = "clean"
    /\ IF response = "text"
       THEN /\ output' = clean_memo_text(raw_output)
            /\ ui' = ui \o <<Msg("header", "Investment Memo"),
                             Elem("memo", "memo-container", "", output', <<>>)>>
            /\ pc' = "markdown"
            /\ failure' = failure
       ELSE \* re.sub on None, or raw_output never bound
            /\ failure' = IF response = "null" THEN "TypeError" ELSE "NameError"
            /\ pc' = "crashed"
            /\ UNCHANGED <<output, ui>>
    /\ UNCHANGED <<DEFAULT_OPENROUTER_KEY, memo_mode, user_api_key, OPENROUTER_KEY,
                   startup_name, startup_description, founder_background, details, clicked,
                   pitch_deck, deck_text, PROMPT, requests, response, raw_output, pdf_safe,
                   textVars>>

\* lines 271-276: the Markdown download
OfferMarkdown ==
    /\ pc = "markdown"
    /\ ui' = Append(ui, Elem("download", "Download Memo (Markdown)",
                             startup_name \o "_investment_memo.md", output, <<>>))
    /\ pc' = "pdf"
    /\ UNCHANGED <<DEFAULT_OPENROUTER_KEY, memo_mode, user_api_key, OPENROUTER_KEY,
                   startup_name, startup_description, founder_background, details, clicked,
                   pitch_deck, deck_text, PROMPT, requests, failure, response, raw_output,
                   output, pdf_safe, textVars>>

\* lines 278-286: normalize, render, encode, and the PDF download
OfferPdf ==
    /\ pc = "pdf"
    /\ pdf_safe' = normalize_for_pdf(output)
    /\ IF Latin1Encodable(pdf_safe')
       THEN /\ ui' = Append(ui, Elem("download", "Download Memo (PDF)",
                                     startup_name \o "_investment_memo.pdf", pdf_safe',
                                     memo_to_pdf(pdf_safe')))
            /\ pc' = "success"
            /\ failure' = failure
       ELSE /\ failure' = "UnicodeEncodeError"
            /\ pc' = "crashed"
            /\ ui' = ui
    /\ UNCHANGED <<DEFAULT_OPENROUTER_KEY, memo_mode, user_api_key, OPENROUTER_KEY,
                   startup_name, startup_description, founder_background, details, clicked,
                   pitch_deck, deck_text, PROMPT, requests, response, raw_output, output,
                   textVars>>

\* line 288
Success ==
    /\ pc = "success"
    /\ ui' = Append(ui, Msg("success", "Memo generated successfully."))
    /\ pc' = "done"
    /\ UNCHANGED <<DEFAULT_OPENROUTER_KEY, memo_mode, user_api_key, OPENROUTER_KEY,
                   startup_name, startup_description, founder_background, details, clicked,
                   pitch_deck, deck_text, PROMPT, requests, failure, response, raw_output,
                   output, pdf_safe, textVars>>

RunEnded == pc \in {"idle", "stopped", "crashed", "done"}

\* Streamlit runs the script again, from the top, on the next interaction.
Rerun ==
    /\ RunEnded
    /\ pc' = "sidebar"
    /\ memo_mode' = "Quick IC Memo"
    /\ user_api_key' = ""
    /\ OPENROUTER_KEY' = None
    /\ startup_name' = ""
    /\ startup_description' = ""
    /\ founder_background' = ""
    /\ details' = BlankDetails
    /\ clicked' = FALSE
    /\ pitch_deck' = NoFile
    /\ deck_text' = ""
    /\ PROMPT' = <<>>
    /\ requests' = <<>>
    /\ failure' = "none"
    /\ response' = "pending"
    /\ raw_output' = <<>>
    /\ output' = <<>>
    /\ pdf_safe' = <<>>
    /\ ui' = <<>>
    /\ UNCHANGED <<DEFAULT_OPENROUTER_KEY, textVars>>

Next ==
    \/ Sidebar
    \/ Inputs
    \/ ReadDeck
    \/ Button
    \/ Validate
    \/ BuildPrompt
    \/ CallProvider
    \/ CleanMemo
    \/ OfferMarkdown
    \/ OfferPdf
    \/ Success
    \/ Rerun

Spec == Init /\ [][Next]_vars

----------------------------------------------------------------------------
(* TextSpec *)

TextInit ==
    /\ DEFAULT_OPENROUTER_KEY = None
    /\ FreshRun
    /\ applied = <<>>
    /\ \E t \in TextsOver(CleanerAlphabet, MaxLen) \cup TextsOver(PdfAlphabet, MaxPdfLen) :
          hist = <<t>>

Last(h) == h[Len(h)]

\* output = clean_memo_text(...), once and then once more on its own result
ApplyClean ==
    /\ Len(applied) < 2
    /\ \A k \in 1..Len(applied) : applied[k] = "clean"
    /\ applied' = Append(applied, "clean")
    /\ hist' = Append(hist, clean_memo_text(Last(hist)))
    /\ UNCHANGED runVars

\* pdf_safe = normalize_for_pdf(...), on a raw text or on a cleaned one
ApplyNormalize ==
    /\ applied \in {<<>>, <<"clean">>}
    /\ applied' = Append(applied, "normalize")
    /\ hist' = Append(hist, normalize_for_pdf(Last(hist)))
    /\ UNCHANGED runVars

TextNext == ApplyClean \/ ApplyNormalize

TextSpec == TextInit /\ [][TextNext]_vars

----------------------------------------------------------------------------
(* Properties of the text functions, under TextSpec *)

\* C2: cleaning a cleaned text changes nothing.
C2_CleanIdempotent ==
    applied = <<"clean", "clean">> => hist[3] = hist[2]

\* A text that cleaning changes ("5 5 a" to "5 5a"), cleaned twice.
C2_Witness ==
    /\ applied = <<"clean", "clean">>
    /\ hist[1] = <<"5", " ", "5", " ", "a">>
    /\ hist[2] = <<"5", " ", "5", "a">>

\* The maximal whitespace run of t that starts at i ends right before a word
\* character and starts right after one.
BetweenWords(t, i) ==
    LET j == RunEnd(t, i, Whitespace) IN
    /\ t[i] \in Whitespace
    /\ i > 1
    /\ t[i - 1] \in WordChars
    /\ j < Len(t)
    /\ t[j + 1] \in WordChars

\* C10: in a cleaned text every whitespace run directly between two word
\* characters is one space (so no newline separates two word characters), and
\* no three newlines follow one another.
C10_WhitespaceAfterClean ==
    (applied # <<>> /\ applied[1] = "clean")
    => LET t == hist[2] IN
       /\ \A i \in 1..Len(t) :
             BetweenWords(t, i) => (t[i] = " " /\ t[i + 1] \in WordChars)
       /\ \A i \in 1..Len(t) :
             ~(i + 2 <= Len(t) /\ t[i] = Newline /\ t[i + 1] = Newline /\ t[i + 2] = Newline)

\* A paragraph break between two word characters became one space.
C10_Witness ==
    /\ applied = <<"clean">>
    /\ hist[1] = <<"a", "\n", "\n", "_">>
    /\ hist[2] = <<"a", " ", "_">>

Occurrences(t, c) == Cardinality({i \in 1..Len(t) : t[i] = c})

\* C6 as stated: a normalized text holds no em dash, en dash, curly quote,
\* bullet or arrow, and no less-or-equal or greater-or-equal sign.
C6_NoMappedNorSigns ==
    (applied # <<>> /\ applied[Len(applied)] = "normalize")
    => \A i \in 1..Len(Last(hist)) : Last(hist)[i] \notin MappedChars \cup UnmappedSigns

\* C6 as amended: a normalized text holds none of the eight characters of the
\* table; the signs "le" and "ge" are not in the table and stay as they were.
C6_NoMappedChars ==
    (applied # <<>> /\ applied[Len(applied)] = "normalize")
    => LET in == hist[Len(hist) - 1]
           out == Last(hist)
       IN /\ \A i \in 1..Len(out) : out[i] \notin MappedChars
          /\ \A c \in UnmappedSigns : Occurrences(out, c) = Occurrences(in, c)

\* A bullet and a less-or-equal sign, normalized.
C6_Witness ==
    /\ applied = <<"normalize">>
    /\ hist[1] = <<"bullet", "le">>
    /\ hist[2] = <<"-", "le">>


----------------------------------------------------------------------------
(* Properties of the script run, under Spec *)

Shown(kind) == SelectSeq(ui, LAMBDA e : e.kind = kind)
Labels(es) == [i \in 1..Len(es) |-> es[i].label]
Downloads == Shown("download")
SuccessShown == Shown("success") # <<>>
ValidationError == "Startup name, description, and founder background are required."

\* C1: once Analyze was clicked with the startup name, the description or the
\* founder background empty, the run shows the validation error and has
\* stopped, and it never issues a completion request.
C1_ValidationGate ==
    /\ (/\ clicked
        /\ pc # "validate"
        /\ (startup_name = "" \/ startup_description = "" \/ founder_background = ""))
       => /\ pc = "stopped"
          /\ Labels(Shown("error")) = <<ValidationError>>
          /\ requests = <<>>
    /\ requests # <<>>
       => (startup_name # "" /\ startup_description # "" /\ founder_background # "")

\* A run stopped by validation with only the founder background left empty.
C1_Witness ==
    /\ clicked
    /\ pc = "stopped"
    /\ startup_name # ""
    /\ startup_description # ""
    /\ founder_background = ""
    /\ Labels(Shown("error")) = <<ValidationError>>

\* C3: a run issues at most one completion request; when call_nex_agi raises,
\* the run has reported the failure and stopped: no cleaned memo is shown, no
\* download is offered and the success message is not shown.  (A body whose
\* content is null raises nothing in call_nex_agi; that run too ends with no
\* download and no success message.)
C3_FailureTerminal ==
    /\ Len(requests) <= 1
    /\ response = "raised"
       => /\ pc = "stopped"
          /\ Labels(Shown("error")) = <<"AI request failed.", ExcStr(failure)>>
          /\ Shown("memo") = <<>>
          /\ output = <<>>
          /\ Downloads = <<>>
          /\ ~SuccessShown
    /\ response = "null" => (Downloads = <<>> /\ ~SuccessShown)

\* A run whose one request timed out.
C3_Witness ==
    /\ Len(requests) = 1
    /\ response = "raised"
    /\ failure = "Timeout"
    /\ pc = "stopped"

\* C4: a deck over 10 MB, or one that cannot be parsed, is not extracted, a
\* warning is shown, and the deck alone never makes the run fail.
C4_DegradedDeck ==
    (/\ pitch_deck.present
     /\ (pitch_deck.size_mb > 10 \/ ~pitch_deck.parseable)
     /\ pc # "deck")
    => /\ deck_text = ""
       /\ failure # "PdfReadError"
       /\ Shown("warning") # <<>>

\* C5: every request carries the user's key when it is not empty and the
\* process-wide default otherwise; with neither, the run stops after the
\* sidebar: no input widget is rendered and no request is issued.
C5_CredentialResolution ==
    /\ \A i \in 1..Len(requests) :
          requests[i].authorization =
             "Bearer " \o (IF user_api_key # "" THEN user_api_key
                           ELSE DEFAULT_OPENROUTER_KEY)
    /\ (pc # "sidebar" /\ user_api_key = "" /\ DEFAULT_OPENROUTER_KEY \in {None, ""})
       => /\ pc = "stopped"
          /\ Shown("input") = <<>>
          /\ Shown("button") = <<>>
          /\ Shown("warning") # <<>>
          /\ requests = <<>>

\* A request made with the user's key while the environment holds another.
C5_Witness ==
    /\ requests # <<>>
    /\ user_api_key = "sk-user"
    /\ DEFAULT_OPENROUTER_KEY = "sk-env"
    /\ requests[1].authorization = "Bearer sk-user"

\* C7: when the request fails for exhausted quota (HTTP 429), an error message
\* is shown that is neither the generic "AI request failed." nor the text of
\* an exception.
C7_QuotaMessage ==
    (response = "raised" /\ failure = "HTTPError 429")
    => \E i \in 1..Len(ui) :
          /\ ui[i].kind \in {"error", "warning"}
          /\ ui[i].label \notin {"AI request failed."} \cup {ExcStr(e) : e \in RequestFailures}

InPrompt(lines) == \E i \in 1..Len(PROMPT) : PROMPT[i] \in lines

\* C8: in either mode the built prompt carries the four grounding
\* directives: only the supplied facts, "Information not provided" for gaps,
\* inferences labelled as assumptions, no renaming of the company.
C8_GroundingInBothModes ==
    PROMPT # <<>>
    => /\ InPrompt({"Use ONLY the information explicitly provided.",
                    "You must ONLY use the information explicitly provided below."})
       /\ InPrompt({"Do NOT invent facts. If missing, say \"Information not provided.\"",
                    "If information is missing, explicitly say \"Information not provided.\""})
       /\ InPrompt({"If assumptions are made, clearly label them as assumptions."})
       /\ InPrompt({"Do NOT rename or substitute the company."})

\* C9: a run in which the provider returned a reply has, when it ends, offered
\* exactly two downloads, the Markdown file of the cleaned memo and the PDF of
\* its normalized text, named after the startup; the success message is shown
\* only after both.
C9_TwoArtifacts ==
    /\ (response = "text" /\ RunEnded)
       => /\ Len(Downloads) = 2
          /\ Downloads[1].file = startup_name \o "_investment_memo.md"
          /\ Downloads[1].data = clean_memo_text(raw_output)
          /\ Downloads[2].file = startup_name \o "_investment_memo.pdf"
          /\ Downloads[2].data = normalize_for_pdf(clean_memo_text(raw_output))
    /\ SuccessShown => Len(Downloads) = 2

====
